---- MODULE Spec2Model ----
(***************************************************************************)
(* steamcharts_to_csv: fetch the player-count series of one Steam app from *)
(* SteamCharts, convert the UNIX timestamps to UTC strings and write a CSV *)
(* file.  The model follows src/main.py: main (lines 64-79) runs           *)
(* fetch_chart_data, format_data and save_to_csv in sequence inside one    *)
(* try/except.                                                             *)
(*                                                                         *)
(* Python integers are unbounded and the threshold of format_data is       *)
(* 10^12, beyond the integers TLC computes with.  An integer n is          *)
(* therefore kept as two limbs, n = hi * 10^6 + lo with 0 <= lo < 10^6     *)
(* (hi carries the sign), and the arithmetic of format_data is done on the *)
(* limbs, exactly.                                                         *)
(***************************************************************************)
EXTENDS Integers, Sequences, FiniteSets, TLC

(***************************************************************************)
(* Bounds of the model.                                                    *)
(***************************************************************************)
MaxSamples == 2      \* longest list of samples a payload carries
MaxArgs == 2         \* most command-line arguments after the script name

(***************************************************************************)
(* JSON values, as response.json() builds them.                            *)
(***************************************************************************)
Base == 10^6

JInt(h, l) == [tag |-> "int", hi |-> h, lo |-> l]
JNull == [tag |-> "null"]
JTrue == [tag |-> "bool", b |-> TRUE]
JList(xs) == [tag |-> "list", items |-> xs]
JDict(m) == [tag |-> "dict", map |-> m]
Str(s) == [tag |-> "str", s |-> s]

\* isinstance(data, list), isinstance(data, dict)
IsList(v) == v.tag = "list"
IsDict(v) == v.tag = "dict"

(***************************************************************************)
(* Integer arithmetic of format_data on limbs.                             *)
(***************************************************************************)
\* 1e12, the threshold of line 42
MsThreshold == JInt(Base, 0)

\* a > b on Python ints (the comparison of an int with the float 1e12 is exact)
GreaterThan(a, b) == a.hi > b.hi \/ (a.hi = b.hi /\ a.lo > b.lo)

\* t // 1000 (floor division):
\*   hi*10^6 + lo = ((hi \div 1000)*10^6 + (hi % 1000)*1000 + lo \div 1000) * 1000 + lo % 1000
FloorDiv1000(t) == JInt(t.hi \div 1000, (t.hi % 1000) * 1000 + t.lo \div 1000)

(***************************************************************************)
(* datetime.fromtimestamp(timestamp, timezone.utc): the proleptic          *)
(* Gregorian date and time of day of a number of seconds since the epoch.  *)
(* 54 * 10^6 = 625 * 86400, so with hi = 54*a + b the day number is        *)
(* 625*a + (b*10^6 + lo) \div 86400.                                       *)
(***************************************************************************)
SecondsPerDay == 86400
DaysOf(t) == (t.hi \div 54) * 625 + ((t.hi % 54) * Base + t.lo) \div SecondsPerDay
SecondOfDay(t) == ((t.hi % 54) * Base + t.lo) % SecondsPerDay

\* datetime.min (0001-01-01) and datetime.max (9999-12-31) as day numbers
MinDay == -719162
MaxDay == 2932896

\* fromtimestamp raises ValueError ("year ... is out of range") or OverflowError
\* outside [datetime.min, datetime.max]; for a negative timestamp the platform's
\* gmtime decides (POSIX accepts it, Windows raises OSError): negativeOk.
fromtimestamp_ok(t, negativeOk) ==
    /\ DaysOf(t) >= MinDay
    /\ DaysOf(t) <= MaxDay
    /\ (t.hi < 0 => negativeOk)

\* the civil date of a day number (days since 1970-01-01)
CivilFromDays(days) ==
    LET z == days + 719468
        era == z \div 146097
        doe == z - era * 146097
        yoe == (doe - doe \div 1460 + doe \div 36524 - doe \div 146096) \div 365
        doy == doe - (365 * yoe + yoe \div 4 - yoe \div 100)
        mp == (5 * doy + 2) \div 153
        d == doy - (153 * mp + 2) \div 5 + 1
        m == IF mp < 10 THEN mp + 3 ELSE mp - 9
        y == yoe + era * 400 + (IF m <= 2 THEN 1 ELSE 0)
    IN  <<y, m, d>>

\* .strftime("%Y-%m-%d %H:%M:%S"): the six numbers the format prints, in order
strftime(t) ==
    LET date == CivilFromDays(DaysOf(t))
        s == SecondOfDay(t)
    IN  [tag |-> "str",
         fmt |-> "%Y-%m-%d %H:%M:%S",
         fields |-> <<date[1], date[2], date[3],
                      s \div 3600, (s % 3600) \div 60, s % 60>>]

(***************************************************************************)
(* format_data (lines 35-46).  The result is the list of formatted rows,   *)
(* or the exception the loop raised at the first sample it could not       *)
(* format.                                                                 *)
(***************************************************************************)
Return(v) == [ok |-> TRUE, value |-> v]
Raise(exc, msg) == [ok |-> FALSE, exc |-> exc, msg |-> msg]

\* lines 42-43
\* the off-by-one of line 42: >= in place of >
NormalizeInclusive(timestamp) ==
    IF ~GreaterThan(MsThreshold, timestamp) THEN FloorDiv1000(timestamp) ELSE timestamp
Normalize(timestamp) ==
    IF GreaterThan(timestamp, MsThreshold) THEN FloorDiv1000(timestamp) ELSE timestamp

\* the loop of line 40 passing over a sample it cannot format
RECURSIVE format_loop_lenient(_, _, _, _)
format_loop_lenient(data, i, formatted, negativeOk) ==
    IF i > Len(data) THEN Return(formatted)
    ELSE LET sample == data[i] IN
      IF \/ ~IsList(sample)
         \/ Len(sample.items) # 2
         \/ sample.items[1].tag # "int"
         \/ ~fromtimestamp_ok(Normalize(sample.items[1]), negativeOk)
      THEN format_loop_lenient(data, i + 1, formatted, negativeOk)
      ELSE LET ts == Normalize(sample.items[1]) IN
           format_loop_lenient(data, i + 1,
                               Append(formatted, <<ts, strftime(ts), sample.items[2]>>),
                               negativeOk)

RECURSIVE format_loop(_, _, _, _)
format_loop(data, i, formatted, negativeOk) ==
    IF i > Len(data) THEN Return(formatted)
    ELSE LET sample == data[i] IN
      IF ~IsList(sample) THEN Raise("TypeError", "cannot unpack non-iterable object")
      ELSE IF Len(sample.items) # 2
      THEN Raise("ValueError", "wrong number of values to unpack")
      ELSE LET timestamp == sample.items[1]
               count == sample.items[2]
           IN
        IF timestamp.tag # "int"
        THEN Raise("TypeError", "'>' not supported between instances")
        ELSE LET ts == Normalize(timestamp) IN
          IF ~fromtimestamp_ok(ts, negativeOk)
          THEN Raise("ValueError", "year is out of range")
          ELSE format_loop(data, i + 1,
                           Append(formatted, <<ts, strftime(ts), count>>),
                           negativeOk)

format_data(data, negativeOk) ==
    IF ~IsList(data) THEN Raise("TypeError", "object is not iterable")
    ELSE LET result == format_loop(data.items, 1, <<>>, negativeOk)
         IN  IF result.ok THEN Return(JList(result.value)) ELSE result

(***************************************************************************)
(* fetch_chart_data (lines 10-30).  A response is what requests.get met:   *)
(* a network failure, or a status with a body that is JSON or is not.      *)
(***************************************************************************)
\* line 20
Url(id) == <<"https://steamcharts.com/app/", id, "/chart-data.json">>

\* Response.raise_for_status() raises HTTPError for the statuses 400..599
raise_for_status_raises(status) == status >= 400 /\ status < 600

\* lines 25-30, on the parsed JSON
\* line 27 without its test for the key: data["data"] raises KeyError
shape_unchecked_key(data) ==
    IF IsList(data) THEN Return(data)
    ELSE IF IsDict(data)
    THEN IF "data" \in DOMAIN data.map THEN Return(data.map["data"])
         ELSE Raise("KeyError", "'data'")
    ELSE Raise("ValueError", "Unexpected data format from SteamCharts.")
shape(data) ==
    IF IsList(data) THEN Return(data)
    ELSE IF IsDict(data) /\ "data" \in DOMAIN data.map THEN Return(data.map["data"])
    ELSE Raise("ValueError", "Unexpected data format from SteamCharts.")

\* lines 21-30, on the response
fetch_result(response) ==
    IF response.kind = "failure"
    THEN Raise("ConnectionError", "Max retries exceeded with url")
    ELSE IF raise_for_status_raises(response.status)
    THEN Raise("HTTPError",
               IF response.status < 500 THEN "Client Error for url"
               ELSE "Server Error for url")
    ELSE IF ~response.body.json
    THEN Raise("JSONDecodeError", "Expecting value: line 1 column 1 (char 0)")
    ELSE shape(response.body.value)

(***************************************************************************)
(* save_to_csv (lines 50-61).  A file is the sequence of the tokens        *)
(* written to it: csv.writer writes a row as its fields, each as text,     *)
(* separated by "," and ended by "\r\n".                                   *)
(***************************************************************************)
\* line 74
Filename(id) == <<"steamcharts_", id, ".csv">>

\* line 60
Header == <<Str("Timestamp"), Str("Datetime (UTC)"), Str("PlayerCount")>>

\* the text csv.writer writes for a field: a string as it is, a number by str()
csv_field(v) == IF v.tag = "str" THEN v ELSE [tag |-> "str", repr |-> v]

writerow(row) ==
    <<csv_field(row[1]), Str(","), csv_field(row[2]), Str(","), csv_field(row[3]),
      Str("\r\n")>>

RECURSIVE writerows(_)
writerows(rows) ==
    IF rows = <<>> THEN <<>> ELSE writerow(Head(rows)) \o writerows(Tail(rows))

Absent == [exists |-> FALSE, content |-> <<>>]
File(tokens) == [exists |-> TRUE, content |-> tokens]

(***************************************************************************)
(* The inputs of a run.                                                    *)
(***************************************************************************)
AppIds == {"730", "570"}

Sample(ts, count) == JList(<<ts, count>>)

\* [timestamp, count] pairs in seconds and in milliseconds, at and around the
\* threshold, before the epoch and malformed ones
Samples ==
    { Sample(JInt(1700, 0), JInt(0, 10)),
      Sample(JInt(1700, 3600), JInt(0, 12)),
      Sample(JInt(1700000, 0), JInt(0, 42)),
      Sample(MsThreshold, JInt(0, 5)),
      Sample(JInt(Base, 1), JInt(0, 5)),
      Sample(JInt(-1, 999999), JInt(0, 5)),
      Sample(JNull, JInt(0, 5)),
      JList(<<JInt(1700, 0)>>),
      JInt(0, 7) }

RECURSIVE SeqsUpTo(_, _)
SeqsUpTo(S, n) ==
    IF n = 0 THEN {<<>>}
    ELSE LET shorter == SeqsUpTo(S, n - 1)
         IN  shorter \cup {Append(q, e) : q \in shorter, e \in S}

SampleLists == {JList(q) : q \in SeqsUpTo(Samples, MaxSamples)}

Payloads ==
    SampleLists
    \cup {JDict("data" :> l) : l \in SampleLists}
    \cup {JDict("data" :> JList(<<>>) @@ "meta" :> JTrue),
          JDict("data" :> JNull), JDict("unexpected" :> JTrue), JNull, JInt(0, 5)}

Bodies == {[json |-> FALSE, value |-> JNull]} \cup {[json |-> TRUE, value |-> p] : p \in Payloads}

\* an error status carries some body, which is not looked at
ErrorBodies ==
    {[json |-> FALSE, value |-> JNull],
     [json |-> TRUE, value |-> JList(<<Sample(JInt(1700, 0), JInt(0, 10))>>)]}

Responses ==
    {[tag |-> "response", kind |-> "failure", status |-> 0,
      body |-> [json |-> FALSE, value |-> JNull]]}
    \cup {[tag |-> "response", kind |-> "response", status |-> s, body |-> b] : s \in {200, 300}, b \in Bodies}
    \cup {[tag |-> "response", kind |-> "response", status |-> s, body |-> b] : s \in {404, 503}, b \in ErrorBodies}

\* what an earlier run left in the output file
OldContent ==
    writerow(Header) \o writerow(<<JInt(1600, 0), strftime(JInt(1600, 0)), JInt(0, 1)>>)

UsageLine == <<"Usage: python steamcharts_to_csv.py <app_id>">>
ErrorLine(e) == <<"Error: ", e.msg>>
SavedLine(name) == <<"Data saved to ", name>>

NoException == [ok |-> TRUE, value |-> JNull]
Unset == [tag |-> "unset"]

(***************************************************************************)
(* State.                                                                  *)
(***************************************************************************)
VARIABLES
    sys_argv,        \* sys.argv: the script name, then the arguments
    pc,              \* where main is
    app_id,          \* line 69
    raw_data,        \* line 72
    formatted_data,  \* line 73
    filename,        \* line 74
    exception,       \* the exception propagating to line 77, if any
    stdout,          \* the lines printed
    exit_status,     \* the status the process ends with (0 unless sys.exit(1))
    requests_sent,   \* the URLs requests.get was called with
    response,        \* what the last request met
    fs,              \* the files of the working directory
    fs_before,       \* the files as the run found them
    file,            \* the handle of line 58: whether opened, whether closed
    written          \* rows writerows has written so far

vars == <<sys_argv, pc, app_id, raw_data, formatted_data, filename, exception, stdout,
          exit_status, requests_sent, response, fs, fs_before, file, written>>

Filenames == {Filename(id) : id \in AppIds}

Init ==
    /\ sys_argv \in {<<"steamcharts_to_csv.py">> \o args : args \in SeqsUpTo(AppIds, MaxArgs)}
    /\ pc = "main"
    /\ app_id = ""
    /\ raw_data = Unset
    /\ formatted_data = Unset
    /\ filename = <<>>
    /\ exception = NoException
    /\ stdout = <<>>
    /\ exit_status = 0
    /\ requests_sent = <<>>
    /\ response = Unset
    /\ fs \in [Filenames -> {Absent, File(OldContent)}]
    /\ fs_before = fs
    /\ file = [opened |-> FALSE, closed |-> FALSE]
    /\ written = 0

(***************************************************************************)
(* main (lines 64-79).                                                     *)
(***************************************************************************)
\* line 65 testing only for a missing argument
TooFewArguments == Len(sys_argv) < 2

\* line 65
WrongArgumentCount == Len(sys_argv) # 2

\* lines 65-67
UsageError ==
    /\ pc = "main"
    /\ WrongArgumentCount
    /\ stdout' = Append(stdout, UsageLine)
    /\ exit_status' = 1
    /\ pc' = "exited"
    /\ UNCHANGED <<sys_argv, app_id, raw_data, formatted_data, filename, exception,
                   requests_sent, response, fs, fs_before, file, written>>

\* line 69
ReadAppId ==
    /\ pc = "main"
    /\ ~WrongArgumentCount
    /\ app_id' = sys_argv[2]
    /\ pc' = "fetch"
    /\ UNCHANGED <<sys_argv, raw_data, formatted_data, filename, exception, stdout,
                   exit_status, requests_sent, response, fs, fs_before, file, written>>

\* line 72: one GET, then the checks of fetch_chart_data on what came back
Fetch ==
    /\ pc = "fetch"
    /\ \E r \in Responses :
        LET result == fetch_result(r) IN
        /\ requests_sent' = Append(requests_sent, Url(app_id))
        /\ response' = r
        /\ IF result.ok
           THEN raw_data' = result.value /\ exception' = exception /\ pc' = "format"
           ELSE raw_data' = raw_data /\ exception' = result /\ pc' = "except"
    /\ UNCHANGED <<sys_argv, app_id, formatted_data, filename, stdout, exit_status,
                   fs, fs_before, file, written>>

\* lines 73-74
Format ==
    /\ pc = "format"
    /\ \E negativeOk \in BOOLEAN :
        LET result == format_data(raw_data, negativeOk) IN
        IF result.ok
        THEN /\ formatted_data' = result.value
             /\ filename' = Filename(app_id)
             /\ exception' = exception
             /\ pc' = "save"
        ELSE /\ formatted_data' = formatted_data
             /\ filename' = filename
             /\ exception' = result
             /\ pc' = "except"
    /\ UNCHANGED <<sys_argv, app_id, raw_data, stdout, exit_status, requests_sent,
                   response, fs, fs_before, file, written>>

\* line 58 opening for appending: what the file held stays
OpenAppending ==
    /\ pc = "save"
    /\ fs' = [fs EXCEPT ![filename] = File(@.content)]
    /\ file' = [opened |-> TRUE, closed |-> FALSE]
    /\ pc' = "header"
    /\ UNCHANGED <<sys_argv, app_id, raw_data, formatted_data, filename, exception,
                   stdout, exit_status, requests_sent, response, fs_before, written>>

\* line 58: mode "w" creates the file or truncates it
Open ==
    /\ pc = "save"
    /\ fs' = [fs EXCEPT ![filename] = File(<<>>)]
    /\ file' = [opened |-> TRUE, closed |-> FALSE]
    /\ pc' = "header"
    /\ UNCHANGED <<sys_argv, app_id, raw_data, formatted_data, filename, exception,
                   stdout, exit_status, requests_sent, response, fs_before, written>>

\* line 58: open raises OSError (no permission, a directory of that name, ...)
OpenFails ==
    /\ pc = "save"
    /\ exception' = Raise("PermissionError", "[Errno 13] Permission denied")
    /\ pc' = "except"
    /\ UNCHANGED <<sys_argv, app_id, raw_data, formatted_data, filename, stdout,
                   exit_status, requests_sent, response, fs, fs_before, file, written>>

\* the tokens a write adds to the open file
Write(tokens) == fs' = [fs EXCEPT ![filename].content = @ \o tokens]

\* a write raising in a file opened without the with statement: nothing closes it
WriteFailsUnclosed(tokens) ==
    /\ \E k \in 0..(Len(tokens) - 1) : Write(SubSeq(tokens, 1, k))
    /\ file' = file
    /\ exception' = Raise("OSError", "[Errno 28] No space left on device")
    /\ pc' = "except"

\* a write raising in a writer that removes what it could not finish
WriteFailsRemoving(tokens) ==
    /\ fs' = [fs EXCEPT ![filename] = Absent]
    /\ file' = [file EXCEPT !.closed = TRUE]
    /\ exception' = Raise("OSError", "[Errno 28] No space left on device")
    /\ pc' = "except"

\* a write raises OSError after part of its tokens reached the file; leaving the
\* with block closes the file and the exception goes on to line 77
WriteFails(tokens) ==
    /\ \E k \in 0..(Len(tokens) - 1) : Write(SubSeq(tokens, 1, k))
    /\ file' = [file EXCEPT !.closed = TRUE]
    /\ exception' = Raise("OSError", "[Errno 28] No space left on device")
    /\ pc' = "except"

\* line 60
WriteHeader ==
    /\ pc = "header"
    /\ Write(writerow(Header))
    /\ pc' = "rows"
    /\ UNCHANGED <<sys_argv, app_id, raw_data, formatted_data, filename, exception,
                   stdout, exit_status, requests_sent, response, fs_before, file, written>>

WriteHeaderFails ==
    /\ pc = "header"
    /\ WriteFails(writerow(Header))
    /\ UNCHANGED <<sys_argv, app_id, raw_data, formatted_data, filename, stdout,
                   exit_status, requests_sent, response, fs_before, written>>

\* line 61, one row
WriteRow ==
    /\ pc = "rows"
    /\ written < Len(formatted_data.items)
    /\ Write(writerow(formatted_data.items[written + 1]))
    /\ written' = written + 1
    /\ UNCHANGED <<sys_argv, pc, app_id, raw_data, formatted_data, filename, exception,
                   stdout, exit_status, requests_sent, response, fs_before, file>>

WriteRowFails ==
    /\ pc = "rows"
    /\ written < Len(formatted_data.items)
    /\ WriteFails(writerow(formatted_data.items[written + 1]))
    /\ UNCHANGED <<sys_argv, app_id, raw_data, formatted_data, filename, stdout,
                   exit_status, requests_sent, response, fs_before, written>>

\* line 61 ending before the last row
CloseEarly ==
    /\ pc = "rows"
    /\ file' = [file EXCEPT !.closed = TRUE]
    /\ pc' = "saved"
    /\ UNCHANGED <<sys_argv, app_id, raw_data, formatted_data, filename, exception,
                   stdout, exit_status, requests_sent, response, fs, fs_before, written>>

\* the end of the with block of line 58: the file is closed
Close ==
    /\ pc = "rows"
    /\ written = Len(formatted_data.items)
    /\ file' = [file EXCEPT !.closed = TRUE]
    /\ pc' = "saved"
    /\ UNCHANGED <<sys_argv, app_id, raw_data, formatted_data, filename, exception,
                   stdout, exit_status, requests_sent, response, fs, fs_before, written>>

\* line 76, and main returns
PrintSaved ==
    /\ pc = "saved"
    /\ stdout' = Append(stdout, SavedLine(filename))
    /\ pc' = "exited"
    /\ UNCHANGED <<sys_argv, app_id, raw_data, formatted_data, filename, exception,
                   exit_status, requests_sent, response, fs, fs_before, file, written>>

\* lines 77-79
Except ==
    /\ pc = "except"
    /\ stdout' = Append(stdout, ErrorLine(exception))
    /\ exit_status' = 1
    /\ pc' = "exited"
    /\ UNCHANGED <<sys_argv, app_id, raw_data, formatted_data, filename, exception,
                   requests_sent, response, fs, fs_before, file, written>>

Next ==
    \/ UsageError
    \/ ReadAppId
    \/ Fetch
    \/ Format
    \/ Open
    \/ OpenFails
    \/ WriteHeader
    \/ WriteHeaderFails
    \/ WriteRow
    \/ WriteRowFails
    \/ Close
    \/ PrintSaved
    \/ Except

Spec == Init /\ [][Next]_vars

(***************************************************************************)
(* format_data on its own: the formatter applied to the lists of the runs  *)
(* and to single samples whose timestamps lie at and around the threshold  *)
(* of line 42 and the ends of datetime's range.                            *)
(***************************************************************************)
BoundaryTimestamps ==
    {JInt(h, l) : h \in {-62137, -62136, -1, 0, 1700, 253402, 253403, Base - 1, Base,
                         Base + 1, 1700000, 253402300, 253402301},
                  l \in {0, 1, 999, 1000, 300799, 300800, 403200, 999999}}

FormatInputs ==
    SampleLists
    \cup {JList(<<Sample(t, c)>>) : t \in BoundaryTimestamps, c \in {JInt(0, 0), JInt(0, 42)}}

FormatInit ==
    /\ \E id \in AppIds :
        /\ sys_argv = <<"steamcharts_to_csv.py", id>>
        /\ app_id = id
        /\ requests_sent = <<Url(id)>>
    /\ pc = "format"
    /\ raw_data \in FormatInputs
    /\ response = [tag |-> "response", kind |-> "response", status |-> 200,
                   body |-> [json |-> TRUE, value |-> raw_data]]
    /\ formatted_data = Unset
    /\ filename = <<>>
    /\ exception = NoException
    /\ stdout = <<>>
    /\ exit_status = 0
    /\ fs = [f \in Filenames |-> Absent]
    /\ fs_before = fs
    /\ file = [opened |-> FALSE, closed |-> FALSE]
    /\ written = 0

FormatNext == Format

FormatSpec == FormatInit /\ [][FormatNext]_vars

(***************************************************************************)
(* Properties.                                                             *)
(***************************************************************************)
Exited == pc = "exited"
Failed == ~exception.ok
Fetched == response.tag # "unset"
PrintedError == \E i \in 1..Len(stdout) : stdout[i][1] = "Error: "
PrintedSaved == \E i \in 1..Len(stdout) : stdout[i][1] = "Data saved to "

\* C1: with zero arguments, or two or more, the run prints the usage message and
\* exits with status 1, and never issues an HTTP request nor opens an output file.
C1_UsageErrorDoesNothingElse ==
    Len(sys_argv) # 2 =>
        /\ pc \in {"main", "exited"}
        /\ requests_sent = <<>>
        /\ ~file.opened
        /\ fs = fs_before
        /\ Exited => stdout = <<UsageLine>> /\ exit_status = 1

C1_Witness ==
    /\ Len(sys_argv) = 3
    /\ Exited
    /\ stdout = <<UsageLine>>
    /\ exit_status = 1

\* The causes of failure, read from what the run was given.
Unrecognized(payload) ==
    ~(payload.tag = "list" \/ (payload.tag = "dict" /\ "data" \in DOMAIN payload.map))

\* the fetch has run and met a network failure, a status taken as an error, a body
\* that is not JSON or a payload of neither shape
FetchMet(errorStatus) ==
    /\ Fetched
    /\ \/ response.kind = "failure"
       \/ response.kind = "response" /\ errorStatus
       \/ ~response.body.json
       \/ Unrecognized(response.body.value)

\* a value format_data cannot format: not a list, or holding an element that is not
\* a two-item list, a timestamp that is not a number, or the timestamp 10^12
\* (seconds of the year 33658)
Unformattable(data) ==
    \/ data.tag # "list"
    \/ \E i \in 1..Len(data.items) :
          LET e == data.items[i] IN
          \/ e.tag # "list"
          \/ Len(e.items) # 2
          \/ e.items[1].tag # "int"
          \/ (e.items[1].hi = 1000000 /\ e.items[1].lo = 0)

\* the format step has run on a value it cannot format
FormatMet ==
    /\ pc \notin {"main", "fetch", "format"}
    /\ raw_data.tag # "unset"
    /\ Unformattable(raw_data)

ErrorHandling(errorStatus) ==
    Len(sys_argv) = 2 =>
        /\ (FetchMet(errorStatus) \/ FormatMet) => Failed
        /\ Failed =>
            /\ pc \in {"except", "exited"}
            /\ Len(requests_sent) = 1
            /\ ~PrintedSaved
            /\ raw_data.tag = "unset" => formatted_data.tag = "unset"
            /\ formatted_data.tag = "unset" => ~file.opened /\ fs = fs_before
            /\ file.opened => file.closed
            /\ Exited => stdout = <<ErrorLine(exception)>> /\ exit_status = 1

\* C2 (as stated): in a run with one argument, a failure of any step (the GET fails
\* or returns a status that is not a success, the payload has neither shape, a
\* sample cannot be formatted, the file cannot be opened or written) prints the one
\* line "Error: <message>" and ends the run with status 1, with no retry and no
\* later step.
C2_AnyNonSuccessStatusIsAnError ==
    ErrorHandling(response.status \notin 200..299)

\* What the code does hold to: the same, where the statuses that fail the fetch are
\* 400..599, the ones raise_for_status raises for.
FailureIsReportedOnce ==
    ErrorHandling(response.status \in 400..599)

NoFileTouched(errorStatus) ==
    \/ FetchMet(errorStatus)
    \/ FormatMet
    \/ Failed /\ formatted_data.tag = "unset"
    => /\ ~file.opened
       /\ fs = fs_before

\* C10 (as stated): if the fetch fails (network error, a status that is not a
\* success, an unparseable or unrecognized payload) or format_data fails on any
\* sample, even the last, the output file is never opened: a file left by an
\* earlier run keeps its content and no file is created.
C10_NonSuccessStatusLeavesFilesAlone ==
    NoFileTouched(response.status \notin 200..299)

\* What the code does hold to: the same, where the statuses that fail the fetch are
\* 400..599.
FailureBeforeSaveLeavesFilesAlone ==
    NoFileTouched(response.status \in 400..599)

\* The run has fetched once with success, formatted every sample, and written the
\* header and every row to a file that is closed.
Complete ==
    /\ Len(requests_sent) = 1
    /\ Fetched
    /\ response.kind = "response"
    /\ raw_data.tag = "list"
    /\ formatted_data.tag = "list"
    /\ Len(formatted_data.items) = Len(raw_data.items)
    /\ written = Len(formatted_data.items)
    /\ Len(fs[filename].content) = 6 * (written + 1)
    /\ file.opened
    /\ file.closed

\* C3: "Data saved to steamcharts_{app_id}.csv" is printed and the run exits with
\* status 0 only after, in this order, one fetch has succeeded, every sample has
\* been formatted, and the header and all rows have been written and the file
\* closed; no run prints both "Data saved" and "Error:", or "Data saved" and exits
\* with status 1.
C3_SavedOnlyAfterTheWholePipeline ==
    /\ [](PrintedSaved =>
            /\ stdout = <<SavedLine(Filename(app_id))>>
            /\ Complete
            /\ ~Failed
            /\ ~PrintedError
            /\ exit_status = 0)
    /\ [](Exited /\ exit_status = 0 => PrintedSaved)
    /\ [][/\ (raw_data' # raw_data =>
                  formatted_data.tag = "unset" /\ ~file.opened /\ requests_sent = <<>>)
           /\ (formatted_data' # formatted_data =>
                  raw_data.tag # "unset" /\ raw_data' = raw_data /\ ~file'.opened)
           /\ (file'.opened /\ ~file.opened =>
                  formatted_data.tag # "unset" /\ formatted_data' = formatted_data)
           /\ (fs' # fs => file'.opened /\ stdout' = stdout /\ stdout = <<>>)
           /\ (file'.closed /\ ~file.closed /\ ~Failed' =>
                  written = Len(formatted_data.items) /\ fs' = fs)
           /\ (PrintedSaved' /\ ~PrintedSaved => Complete /\ UNCHANGED <<fs, file>>)]_vars

C3_Witness ==
    /\ Exited
    /\ exit_status = 0
    /\ stdout = <<SavedLine(Filename(app_id))>>
    /\ Len(raw_data.items) = 2
    /\ Complete

\* s = t // 1000, said by multiplication: t = 1000*s + r with 0 <= r < 1000
IsFloorOfThousandth(s, t) ==
    /\ s.lo \in 0..999999
    /\ t.hi = s.hi * 1000 + s.lo \div 1000
    /\ t.lo \div 1000 = s.lo % 1000

\* C4: where format_data succeeds, the output has the length of the input and its
\* i-th element is built from the i-th input pair (none dropped, duplicated or
\* reordered), with the i-th player count equal to the i-th input count.
C4_FormatKeepsLengthOrderAndCounts ==
    formatted_data.tag = "list" =>
        /\ raw_data.tag = "list"
        /\ Len(formatted_data.items) = Len(raw_data.items)
        /\ \A i \in 1..Len(raw_data.items) :
              LET in == raw_data.items[i]
                  out == formatted_data.items[i]
              IN  /\ in.tag = "list"
                  /\ Len(in.items) = 2
                  /\ Len(out) = 3
                  /\ out[3] = in.items[2]
                  /\ out[1] = in.items[1] \/ IsFloorOfThousandth(out[1], in.items[1])

\* two samples in, the second earlier than the first and with another count
C4_Witness ==
    /\ formatted_data.tag = "list"
    /\ Len(formatted_data.items) = 2
    /\ formatted_data.items[1][3] # formatted_data.items[2][3]
    /\ formatted_data.items[1][1].lo > formatted_data.items[2][1].lo
    /\ formatted_data.items[1][1].hi = formatted_data.items[2][1].hi

\* seconds since the epoch of a rendered datetime, in limbs: the inverse of strftime
DaysFromCivil(y, m, d) ==
    LET yy == IF m <= 2 THEN y - 1 ELSE y
        era == yy \div 400
        yoe == yy - era * 400
        doy == (153 * (IF m > 2 THEN m - 3 ELSE m + 9) + 2) \div 5 + d - 1
        doe == yoe * 365 + yoe \div 4 - yoe \div 100 + doy
    IN  era * 146097 + doe - 719468

SecondsOfDatetime(f) ==
    LET days == DaysFromCivil(f[1], f[2], f[3])
        n == (days % 625) * 86400 + f[4] * 3600 + f[5] * 60 + f[6]
    IN  JInt((days \div 625) * 54 + n \div 1000000, n % 1000000)

\* C5: the timestamp stored in a formatted sample, the one the datetime is rendered
\* from, is t // 1000 when the integer timestamp t given is greater than 10^12 and
\* t itself when t <= 10^12; t = 10^12 is taken as seconds (which no datetime can
\* hold, so that formatting it fails).
C5_MillisecondsAbove10To12 ==
    /\ formatted_data.tag = "list" =>
         \A i \in 1..Len(formatted_data.items) :
            LET t == raw_data.items[i].items[1]
                stored == formatted_data.items[i][1]
                dt == formatted_data.items[i][2]
            IN  /\ IF t.hi > 1000000 \/ (t.hi = 1000000 /\ t.lo > 0)
                   THEN IsFloorOfThousandth(stored, t)
                   ELSE stored = t
                /\ dt.fields[2] \in 1..12 /\ dt.fields[3] \in 1..31
                /\ dt.fields[4] \in 0..23 /\ dt.fields[5] \in 0..59
                /\ dt.fields[6] \in 0..59
                /\ SecondsOfDatetime(dt.fields) = stored
    /\ (/\ pc \notin {"main", "fetch", "format"}
        /\ raw_data.tag = "list"
        /\ \E i \in 1..Len(raw_data.items) :
              LET e == raw_data.items[i]
              IN  e.tag = "list" /\ Len(e.items) = 2 /\ e.items[1] = JInt(1000000, 0))
       => formatted_data.tag = "unset" /\ Failed

\* 10^12 + 1 is milliseconds: 1000000000 is stored
C5_Witness ==
    /\ formatted_data.tag = "list"
    /\ Len(formatted_data.items) = 1
    /\ raw_data.items[1].items[1] = JInt(1000000, 1)
    /\ formatted_data.items[1][1] = JInt(1000, 0)
    /\ formatted_data.items[1][2].fields = <<2001, 9, 9, 1, 46, 40>>

\* C6: after a successful HTTP response fetch_chart_data returns the parsed JSON
\* itself when it is a sequence and the value under "data" when it is a mapping
\* with that key, and otherwise (a mapping without "data", a scalar, null) fails
\* with the unexpected-format error and returns nothing; what it returns holds the
\* samples of the payload, in the payload's order.
C6_FetchReturnsListOrDataValue ==
    (Fetched /\ response.kind = "response" /\ response.status \in 200..299
        /\ response.body.json) =>
        LET payload == response.body.value IN
        IF payload.tag = "list"
        THEN raw_data = payload /\ pc # "fetch"
        ELSE IF payload.tag = "dict" /\ "data" \in DOMAIN payload.map
        THEN raw_data = payload.map["data"] /\ pc # "fetch"
        ELSE /\ raw_data.tag = "unset"
             /\ Failed
             /\ exception.exc = "ValueError"
             /\ exception.msg = "Unexpected data format from SteamCharts."

\* a mapping whose "data" holds two samples, returned as they came
C6_Witness ==
    /\ Fetched
    /\ response.body.json
    /\ response.body.value.tag = "dict"
    /\ response.body.value.map["data"].tag = "list"
    /\ Len(response.body.value.map["data"].items) = 2
    /\ response.body.value.map["data"].items[1] # response.body.value.map["data"].items[2]
    /\ raw_data = response.body.value.map["data"]

\* The run ended with "Data saved" and status 0.
Succeeded == Exited /\ exit_status = 0 /\ PrintedSaved

\* C7: in a successful run what the output file held before is replaced, its first
\* row is the header Timestamp, Datetime (UTC), PlayerCount, and the k-th data row
\* comes from the k-th sample the fetch returned: nothing is reordered or removed
\* between fetch and write.
C7_FileIsHeaderThenRowsInFetchOrder ==
    Succeeded =>
        LET content == fs[Filename(app_id)].content
            n == Len(raw_data.items)
        IN  /\ fs[Filename(app_id)].exists
            /\ Len(content) = 6 * (n + 1)
            /\ SubSeq(content, 1, 6) =
                   <<Str("Timestamp"), Str(","), Str("Datetime (UTC)"), Str(","),
                     Str("PlayerCount"), Str("\r\n")>>
            /\ \A k \in 1..n :
                  LET t == raw_data.items[k].items[1]
                      row == SubSeq(content, 6 * k + 1, 6 * k + 6)
                  IN  /\ row[1].tag = "str" /\ row[1].repr.tag = "int"
                      /\ row[1].repr = t \/ IsFloorOfThousandth(row[1].repr, t)
                      /\ row[2] = Str(",")
                      /\ row[3] = formatted_data.items[k][2]
                      /\ SecondsOfDatetime(row[3].fields) = row[1].repr
                      /\ row[4] = Str(",")
                      /\ row[5] = [tag |-> "str", repr |-> raw_data.items[k].items[2]]
                      /\ row[6] = Str("\r\n")
            /\ \A f \in Filenames \ {Filename(app_id)} : fs[f] = fs_before[f]

\* the file of an earlier run is replaced by the header and two rows
C7_Witness ==
    /\ Succeeded
    /\ fs_before[Filename(app_id)] = File(OldContent)
    /\ Len(raw_data.items) = 2
    /\ raw_data.items[1] # raw_data.items[2]
    /\ Len(fs[Filename(app_id)].content) = 18

\* C8: the file handle of save_to_csv is released on every exit path: in every
\* terminal state (success, failure writing the header, failure writing a row) the
\* file is closed, and it is never open while the fetch or the format step runs.
C8_FileOpenOnlyInsideTheWithBlock ==
    /\ (file.opened /\ ~file.closed) => pc \in {"header", "rows"}
    /\ pc \in {"main", "fetch", "format", "save"} => ~file.opened
    /\ Exited => (file.opened => file.closed)

\* a row could not be written: the run is over and the file is closed
C8_Witness ==
    /\ Exited
    /\ Failed
    /\ exception.exc = "OSError"
    /\ written = 1
    /\ file.opened
    /\ file.closed

RECURSIVE IsPrefix(_, _)
IsPrefix(p, q) ==
    \/ p = <<>>
    \/ /\ q # <<>>
       /\ Head(p) = Head(q)
       /\ IsPrefix(Tail(p), Tail(q))

\* C9: if writing fails after the file was opened, the run ends with "Error:
\* <message>" and status 1 and the file is left truncated: it holds a proper
\* prefix (empty, maybe) of the header row followed by the formatted rows in
\* order; what it held before is not restored and the partial file is not removed.
C9_WriteFailureLeavesTruncatedFile ==
    (Failed /\ file.opened) =>
        LET content == fs[filename].content
            whole == writerow(Header) \o writerows(formatted_data.items)
        IN  /\ fs[filename].exists
            /\ Len(content) < Len(whole)
            /\ IsPrefix(content, whole)
            /\ content # OldContent
            /\ file.closed
            /\ Exited => stdout = <<ErrorLine(exception)>> /\ exit_status = 1

\* the second row broke off in the middle; the file of the earlier run is gone
C9_Witness ==
    /\ Exited
    /\ Failed
    /\ file.opened
    /\ fs_before[filename] = File(OldContent)
    /\ written = 1
    /\ Len(fs[filename].content) = 15

====
